---- MODULE Spec2Model ----
(***************************************************************************)
(* Model of csvaction (src/src/main.rs): a line-frequency counter.  main   *)
(* counts the lines of the input, spawns `concurrency` worker threads that *)
(* receive lines from an mpsc channel behind a Mutex and increment a       *)
(* shared HashMap behind another Mutex, sends every line of the input into *)
(* the channel, joins the workers, and writes the table as a CSV file      *)
(* sorted by count, descending.                                            *)
(*                                                                         *)
(* One process run is modelled from process start to process exit; the     *)
(* disk (input path, output path) outlives the run, so that a second run   *)
(* over the same disk can be observed (Rerun).  The two paths may name the *)
(* same file.                                                              *)
(***************************************************************************)
EXTENDS Integers, Sequences, FiniteSets, TLC

(* ------------------------------ bounds -------------------------------- *)
MaxLines == 3          \* longest input file, in lines
MaxConcurrency == 2    \* largest value of the concurrency option
MaxRuns == 2           \* process runs over the same disk
MaxReportLines == 5    \* longest input of a report phase taken alone
MaxSpin == 1           \* failed reads that consume nothing, per counting pass

(* ------------------------------ inputs -------------------------------- *)
\* The line contents an input file is drawn from.  One of them holds a
\* comma, which the report does not quote.
LineValues == {"a", "a,1"}

\* A path on disk: nothing there, a file of text lines, or a directory.
\* The lines are what BufRead::lines yields: a last line that lacks its
\* newline is a line like the others.
NoFile == [exists |-> FALSE, dir |-> FALSE, lines |-> <<>>]
FileOf(lines) == [exists |-> TRUE, dir |-> FALSE, lines |-> lines]
Directory == [exists |-> TRUE, dir |-> TRUE, lines |-> <<>>]

\* What the input path can hold: nothing, a directory, or any sequence of
\* at most MaxLines lines.
InputFiles ==
  {NoFile, Directory} \cup
  {FileOf(ls) : ls \in UNION {[1..n -> LineValues] : n \in 0..MaxLines}}

StaleRow == "z,9"

\* What the output path holds before the first run: nothing, or the report
\* of some earlier, unrelated run (longer than any report of this model's
\* inputs can be, so that an overwrite in place would leave a tail of it).
PriorResults ==
  {NoFile, FileOf(<<"Line,Count">> \o [i \in 1..(MaxLines + 1) |-> StaleRow])}

Workers == 1..MaxConcurrency

\* Holders of a Mutex: 0 when it is free, a worker, or the main thread.
MainThread == MaxConcurrency + 1

VARIABLES
  file,             \* what args.file_path names on disk
  result,           \* what args.result_path names on disk
  same_path,        \* args.file_path and args.result_path name one file
  concurrency,      \* args.concurrency
  pc,               \* where main is
  status,           \* "running", "done" (main returned), "failed" (panic)
  alive,            \* the process has not exited
  total_lines,      \* what count_lines returned
  rpos,             \* lines consumed by the reader of the current pass
  chan,             \* the mpsc channel: lines sent and not yet received
  sender,           \* TRUE while data_sender has not been dropped
  rx_lock,          \* holder of the Mutex around data_receiver
  table_lock,       \* holder of the Mutex around data_count
  wpc,              \* where each worker thread is
  wline,            \* the line a worker has received and not yet counted
  data_count,       \* the HashMap: line -> count
  spawned,          \* handles pushed so far
  joined,           \* handles joined so far
  data_count_list,  \* the Vec<DataCount> of write_sort_and_merge_result
  wpos,             \* rows of data_count_list written so far
  io_failed,        \* history: the I/O operations that failed in this run
  sent,             \* history: number of lines sent in this run
  recv_log,         \* history: <<worker, id>> for every receive of this run
  file0,            \* history: the input when this run started
  result0,          \* history: the output file when this run started
  prev,             \* history: the last earlier run that completed
  run               \* history: number of this run

vars ==
  <<file, result, same_path, concurrency, pc, status, alive, total_lines,
    rpos, chan, sender, rx_lock, table_lock, wpc, wline, data_count,
    spawned, joined, data_count_list, wpos, io_failed, sent, recv_log,
    file0, result0, prev, run>>

\* What the two paths hold.  When they name one file, the two variables
\* are that one file and change together (Store).
disk == <<file, result>>
args == <<concurrency, same_path>>
workerVars == <<rx_lock, wpc, wline, recv_log>>
reportVars == <<data_count_list, wpos>>
histVars == <<file0, result0, prev, run>>

Header == "Line,Count"
NoLine == "NoLine"
NoPrev == [concurrency |-> -1, input |-> NoFile, result |-> NoFile]
EmptyMap == [l \in {} |-> 0]

(* ----------------------------- helpers -------------------------------- *)

\* The update written with or_insert(1): a new entry starts at 2.
Increment_FromOne(table, line) ==
  IF line \in DOMAIN table
    THEN [table EXCEPT ![line] = @ + 1]
    ELSE [l \in (DOMAIN table) \cup {line} |->
            IF l = line THEN 2 ELSE table[l]]

\* The update written as data_count.insert(line, 1): an entry that is
\* already there is overwritten, not incremented.
Increment_Overwrite(table, line) ==
  [l \in (DOMAIN table) \cup {line} |-> IF l = line THEN 1 ELSE table[l]]

\* HashMap::entry(line).or_insert(0) followed by += 1  (main.rs:63)
Increment(table, line) ==
  IF line \in DOMAIN table
    THEN [table EXCEPT ![line] = @ + 1]
    ELSE [l \in (DOMAIN table) \cup {line} |->
            IF l = line THEN 1 ELSE table[l]]

\* The orders in which HashMap::iter may yield the entries: any.
IterOrders(table) ==
  {s \in [1..Cardinality(DOMAIN table) -> DOMAIN table] :
     \A i, j \in DOMAIN s : i /= j => s[i] /= s[j]}

\* .iter().map(|(line, count)| DataCount {..}).collect()  (main.rs:122-128)
Collect(table, order) ==
  [i \in DOMAIN order |-> [line |-> order[i], count |-> table[order[i]]]]

\* The comparison the other way round, a.count.cmp(&b.count): ascending.
Behind_Ascending(a, b) == a.count > b.count

\* The comparison of the sort: b.count.cmp(&a.count) is Greater exactly
\* when a must move behind b.
Behind(a, b) == b.count > a.count

\* One insertion of a stable insertion sort: x goes after every element it
\* is not strictly before.
RECURSIVE SortInsert(_, _)
SortInsert(sorted, x) ==
  IF sorted = <<>> THEN <<x>>
  ELSE IF Behind(sorted[Len(sorted)], x)
    THEN Append(SortInsert(SubSeq(sorted, 1, Len(sorted) - 1), x),
                sorted[Len(sorted)])
    ELSE Append(sorted, x)

\* data_count_list.sort_by(|a, b| b.count.cmp(&a.count)): a stable sort.
RECURSIVE SortByCount(_)
SortByCount(list) ==
  IF list = <<>> THEN <<>>
  ELSE SortInsert(SortByCount(SubSeq(list, 1, Len(list) - 1)),
                  list[Len(list)])

\* writeln!(result_file, "{},{}", line, count): the text of one row.
Row(dc) == dc.line \o "," \o ToString(dc.count)

\* What a write that fails can have put into the file before it failed:
\* the first n bytes of the text, for any n (write_all writes what the
\* system accepts and returns the error of the write that accepts none).
Prefixes(text) == {SubSeq(text, 1, n) : n \in 1..Len(text)}

\* The output path gets a new content; the input path too when it names
\* the same file.
Store(f) ==
  /\ result' = f
  /\ file' = IF same_path THEN f ELSE file

(* ------------------------------- Init --------------------------------- *)
Init ==
  /\ file \in InputFiles
  /\ same_path \in BOOLEAN
  /\ result \in (IF same_path THEN {file} ELSE PriorResults)
  /\ concurrency \in 0..MaxConcurrency
  /\ pc = "count_open"
  /\ status = "running"
  /\ alive = TRUE
  /\ total_lines = 0
  /\ rpos = 0
  /\ chan = <<>>
  /\ sender = TRUE
  /\ rx_lock = 0
  /\ table_lock = 0
  /\ wpc = [w \in Workers |-> "unspawned"]
  /\ wline = [w \in Workers |-> NoLine]
  /\ data_count = EmptyMap
  /\ spawned = 0
  /\ joined = 0
  /\ data_count_list = <<>>
  /\ wpos = 0
  /\ io_failed = {}
  /\ sent = 0
  /\ recv_log = <<>>
  /\ file0 = file
  /\ result0 = result
  /\ prev = NoPrev
  /\ run = 1

\* A run that goes on after an error (the error is printed, not unwrapped).
Running_AfterFailure == status \in {"running", "failed"}

\* The main thread is running: it has neither returned nor panicked.  It
\* guards the steps of main only; the worker threads run for as long as
\* the process is alive.
Running == status = "running"

\* An I/O operation returns Err(e).
Fail(kind) == io_failed' = io_failed \cup {kind}

\* .unwrap() on an Err in main: the main thread panics.  The process is
\* still there while main unwinds: the other threads go on until Exit.
Panic ==
  /\ status' = "failed"
  /\ UNCHANGED alive

(* ------------------------ main: count_lines --------------------------- *)

\* count_lines whose failure is not unwrapped (unwrap_or(0)): main goes on.
CountLinesOpen_Unchecked ==
  /\ Running /\ pc = "count_open"
  /\ \E ok \in {b \in BOOLEAN : b => file.exists} :
       IF ok
         THEN /\ pc' = "count_scan"
              /\ rpos' = 0
              /\ UNCHANGED <<status, alive, io_failed>>
         ELSE /\ pc' = "spawn"
              /\ Fail("open")
              /\ UNCHANGED <<status, alive, rpos>>
  /\ UNCHANGED <<disk, args, total_lines, chan, sender, workerVars,
                 table_lock, data_count, spawned, joined, reportVars, sent,
                 histVars>>

\* count_lines: File::open(file_path)?  and main's unwrap  (main.rs:37,154).
\* The open fails when nothing is at the path, and it can fail when
\* something is (no permission to read it).  No other thread exists yet.
CountLinesOpen ==
  /\ Running /\ pc = "count_open"
  /\ \E ok \in {b \in BOOLEAN : b => file.exists} :
       IF ok
         THEN /\ pc' = "count_scan"
              /\ rpos' = 0
              /\ UNCHANGED <<status, alive, io_failed>>
         ELSE /\ Fail("open")
              /\ Panic
              /\ UNCHANGED <<pc, rpos>>
  /\ UNCHANGED <<disk, args, total_lines, chan, sender, workerVars,
                 table_lock, data_count, spawned, joined, reportVars, sent,
                 histVars>>

\* reader.lines().count(): one item of the iterator.  The item is counted
\* whether it is Ok(line) or Err(e)  (main.rs:156).  A line that cannot be
\* decoded is consumed by the read that fails on it.  A read that fails
\* before it gets any byte (an I/O error on a file, at any position, also at
\* its end or when it is empty; every read when the path is a directory)
\* consumes nothing: the Err is counted, the iterator goes on, and it may
\* yield Err again and again, so that count need not return.  The items
\* counted without a line consumed are total_lines - rpos; the model
\* follows MaxSpin of them.
CountLinesNext ==
  /\ Running /\ pc = "count_scan"
  /\ \/ /\ ~file.dir
        /\ rpos < Len(file.lines)
        /\ \E ok \in BOOLEAN :
             io_failed' =
               IF ok THEN io_failed ELSE io_failed \cup {"count_read"}
        /\ rpos' = rpos + 1
     \/ /\ total_lines - rpos < MaxSpin
        /\ Fail("count_read")
        /\ UNCHANGED rpos
  /\ total_lines' = total_lines + 1
  /\ UNCHANGED <<disk, args, pc, status, alive, chan, sender, workerVars,
                 table_lock, data_count, spawned, joined, reportVars, sent,
                 histVars>>

\* The iterator is exhausted: count_lines returns Ok; main creates the
\* channel, the progress bar and the table  (main.rs:37-54).
CountLinesEnd ==
  /\ Running /\ pc = "count_scan"
  /\ ~file.dir
  /\ rpos = Len(file.lines)
  /\ pc' = "spawn"
  /\ UNCHANGED <<disk, args, status, alive, total_lines, rpos, chan, sender,
                 workerVars, table_lock, data_count, spawned, joined,
                 reportVars, io_failed, sent, histVars>>

(* ---------------------------- main: spawn ----------------------------- *)

\* A spawn loop over 0..args.concurrency.max(1): never fewer than one
\* worker.
Spawn_AtLeastOne ==
  /\ Running /\ pc = "spawn"
  /\ spawned < (IF concurrency >= 1 THEN concurrency ELSE 1)
  /\ spawned' = spawned + 1
  /\ wpc' = [wpc EXCEPT ![spawned + 1] = "lock_rx"]
  /\ UNCHANGED <<disk, args, pc, status, alive, total_lines, rpos, chan, sender,
                 rx_lock, wline, recv_log, table_lock, data_count, joined,
                 reportVars, io_failed, sent, histVars>>

\* One iteration of  for _ in 0..args.concurrency  (main.rs:55-67).
Spawn ==
  /\ Running /\ pc = "spawn"
  /\ spawned < concurrency
  /\ spawned' = spawned + 1
  /\ wpc' = [wpc EXCEPT ![spawned + 1] = "lock_rx"]
  /\ UNCHANGED <<disk, args, pc, status, alive, total_lines, rpos, chan, sender,
                 rx_lock, wline, recv_log, table_lock, data_count, joined,
                 reportVars, io_failed, sent, histVars>>

(* --------------------------- main: read_file -------------------------- *)

\* read_file: File::open(file_path)?  (main.rs:93).  This is a second
\* open of the path: it can fail although the open of count_lines did not
\* (the file was removed or made unreadable in between).  data_sender was
\* moved into read_file, so it is dropped when read_file returns the error;
\* main has not panicked yet (ReadFileUnwrap).
ReadFileOpen ==
  /\ Running /\ pc = "spawn"
  /\ spawned = concurrency
  /\ \E ok \in {b \in BOOLEAN : b => file.exists} :
       IF ok
         THEN /\ pc' = "read_loop"
              /\ rpos' = 0
              /\ UNCHANGED <<io_failed, sender>>
         ELSE /\ Fail("open")
              /\ sender' = FALSE
              /\ pc' = "read_err"
              /\ UNCHANGED rpos
  /\ UNCHANGED <<disk, args, status, alive, total_lines, chan, workerVars,
                 table_lock, data_count, spawned, joined, reportVars, sent,
                 histVars>>

\* read_file over a rendezvous-like bounded channel (sync_channel(1)): send
\* waits while a line is pending.
ReadFileNext_Bounded ==
  /\ Running /\ pc = "read_loop"
  /\ \E ok \in {b \in BOOLEAN : b => rpos < Len(file.lines)} :
       IF ok
         THEN /\ Len(chan) < 1
              /\ chan' = Append(chan, [id |-> sent + 1,
                                       line |-> file.lines[rpos + 1]])
              /\ sent' = sent + 1
              /\ rpos' = rpos + 1
              /\ UNCHANGED <<io_failed, sender, pc>>
         ELSE /\ Fail("read")
              /\ sender' = FALSE
              /\ pc' = "read_err"
              /\ UNCHANGED <<chan, sent, rpos>>
  /\ UNCHANGED <<disk, args, status, alive, total_lines, workerVars,
                 table_lock, data_count, spawned, joined, reportVars,
                 histVars>>

\* read_file that ends its loop at the first failed read instead of
\* returning the error (while let Some(Ok(line)) = ...).
ReadFileNext_Break ==
  /\ Running /\ pc = "read_loop"
  /\ \E ok \in {b \in BOOLEAN : b => rpos < Len(file.lines)} :
       IF ok
         THEN /\ chan' = Append(chan, [id |-> sent + 1,
                                       line |-> file.lines[rpos + 1]])
              /\ sent' = sent + 1
              /\ rpos' = rpos + 1
              /\ UNCHANGED <<io_failed, sender, pc>>
         ELSE /\ Fail("read")
              /\ sender' = FALSE
              /\ pc' = "join"
              /\ UNCHANGED <<chan, sent, rpos>>
  /\ UNCHANGED <<disk, args, status, alive, total_lines, workerVars, table_lock,
                 data_count, spawned, joined, reportVars, histVars>>

\* One iteration of  for line in reader.lines()  (main.rs:96-100).  The
\* read can fail wherever the reader stands, also after the last line and
\* on an empty file: line? returns the error, which drops data_sender
\* (main has not panicked yet, ReadFileUnwrap).  Otherwise, if there is a
\* next line, it is sent.  send cannot fail: the receiver is kept alive by
\* main.
ReadFileNext ==
  /\ Running /\ pc = "read_loop"
  /\ \E ok \in {b \in BOOLEAN : b => rpos < Len(file.lines)} :
       IF ok
         THEN /\ chan' = Append(chan, [id |-> sent + 1,
                                       line |-> file.lines[rpos + 1]])
              /\ sent' = sent + 1
              /\ rpos' = rpos + 1
              /\ UNCHANGED <<io_failed, sender, pc>>
         ELSE /\ Fail("read")
              /\ sender' = FALSE
              /\ pc' = "read_err"
              /\ UNCHANGED <<chan, sent, rpos>>
  /\ UNCHANGED <<disk, args, status, alive, total_lines, workerVars,
                 table_lock, data_count, spawned, joined, reportVars,
                 histVars>>

\* read_file(...).unwrap() on the Err that read_file returned (main.rs:69):
\* main panics.  The workers have been running since read_file dropped the
\* sender, and they go on.
ReadFileUnwrap ==
  /\ Running /\ pc = "read_err"
  /\ Panic
  /\ UNCHANGED <<disk, args, pc, total_lines, rpos, chan, sender,
                 workerVars, table_lock, data_count, spawned, joined,
                 reportVars, io_failed, sent, histVars>>

\* read_file that borrows the sender (&Sender<String>): data_sender stays
\* alive in main after read_file has returned.
ReadFileEnd_KeepSender ==
  /\ Running /\ pc = "read_loop"
  /\ rpos = Len(file.lines)
  /\ pc' = "join"
  /\ UNCHANGED <<disk, args, status, alive, total_lines, rpos, chan, sender,
                 workerVars, table_lock, data_count, spawned, joined,
                 reportVars, io_failed, sent, histVars>>

\* The loop ends: read_file returns Ok(()) and drops data_sender
\* (main.rs:102-103).
ReadFileEnd ==
  /\ Running /\ pc = "read_loop"
  /\ rpos = Len(file.lines)
  /\ sender' = FALSE
  /\ pc' = "join"
  /\ UNCHANGED <<disk, args, status, alive, total_lines, rpos, chan, workerVars,
                 table_lock, data_count, spawned, joined, reportVars,
                 io_failed, sent, histVars>>

(* ----------------------------- main: join ----------------------------- *)

\* A join loop that does not wait for the thread (the handle is dropped).
Join_NoWait ==
  /\ Running /\ pc = "join"
  /\ joined < concurrency
  /\ joined' = joined + 1
  /\ UNCHANGED <<disk, args, pc, status, alive, total_lines, rpos, chan, sender,
                 workerVars, table_lock, data_count, spawned, reportVars,
                 io_failed, sent, histVars>>

\* One iteration of  for handle in handles { handle.join().unwrap() }
\* (main.rs:72-74): returns once that worker thread has finished.
Join ==
  /\ Running /\ pc = "join"
  /\ joined < concurrency
  /\ wpc[joined + 1] = "exit"
  /\ joined' = joined + 1
  /\ UNCHANGED <<disk, args, pc, status, alive, total_lines, rpos, chan, sender,
                 workerVars, table_lock, data_count, spawned, reportVars,
                 io_failed, sent, histVars>>

(* ------------------ main: write_sort_and_merge_result ----------------- *)

\* data_count.lock().unwrap().clone(), then collect and sort
\* (main.rs:79,122-131).  The guard is a temporary of the call statement:
\* main holds the table lock until the call has returned.
Snapshot ==
  /\ Running /\ pc = "join"
  /\ joined = concurrency
  /\ table_lock = 0
  /\ table_lock' = MainThread
  /\ \E order \in IterOrders(data_count) :
       data_count_list' = SortByCount(Collect(data_count, order))
  /\ wpos' = 0
  /\ pc' = "create"
  /\ UNCHANGED <<disk, args, status, alive, total_lines, rpos, chan, sender,
                 workerVars, data_count, spawned, joined, io_failed, sent,
                 histVars>>

\* The output opened for appending instead of created: nothing truncated.
Create_NoTruncate ==
  /\ Running /\ pc = "create"
  /\ \E ok \in BOOLEAN :
       IF ok
         THEN /\ Store(FileOf(result.lines))
              /\ pc' = "header"
              /\ UNCHANGED <<status, alive, io_failed>>
         ELSE /\ Fail("create")
              /\ Panic
              /\ UNCHANGED <<disk, pc>>
  /\ UNCHANGED <<args, total_lines, rpos, chan, sender, workerVars,
                 table_lock, data_count, spawned, joined, reportVars, sent,
                 histVars>>

\* File::create(result_path)?: creates the file or truncates it
\* (main.rs:134).  When result_path names the input file, it is the input
\* that is truncated; read_file has closed it by now.
Create ==
  /\ Running /\ pc = "create"
  /\ \E ok \in BOOLEAN :
       IF ok
         THEN /\ Store(FileOf(<<>>))
              /\ pc' = "header"
              /\ UNCHANGED <<status, alive, io_failed>>
         ELSE /\ Fail("create")
              /\ Panic
              /\ UNCHANGED <<disk, pc>>
  /\ UNCHANGED <<args, total_lines, rpos, chan, sender, workerVars,
                 table_lock, data_count, spawned, joined, reportVars, sent,
                 histVars>>

\* writeln!(result_file, "Line,Count")?  (main.rs:137).  The File is not
\* buffered: a write that fails leaves in the file what the system had
\* accepted, nothing or the first bytes of the header.
WriteHeader ==
  /\ Running /\ pc = "header"
  /\ \E ok \in BOOLEAN :
       IF ok
         THEN /\ Store(FileOf(Append(result.lines, Header)))
              /\ pc' = "rows"
              /\ UNCHANGED <<status, alive, io_failed>>
         ELSE /\ Fail("write")
              /\ Panic
              /\ \/ UNCHANGED disk
                 \/ \E part \in Prefixes(Header) :
                      Store(FileOf(Append(result.lines, part)))
              /\ UNCHANGED pc
  /\ UNCHANGED <<args, total_lines, rpos, chan, sender, workerVars,
                 table_lock, data_count, spawned, joined, reportVars, sent,
                 histVars>>

\* One iteration of  for data_count in data_count_list  (main.rs:140-147).
\* A write that fails leaves nothing of the row or its first bytes, up to
\* the whole row without its newline.
WriteRow ==
  /\ Running /\ pc = "rows"
  /\ wpos < Len(data_count_list)
  /\ \E ok \in BOOLEAN :
       IF ok
         THEN /\ Store(FileOf(Append(result.lines,
                                     Row(data_count_list[wpos + 1]))))
              /\ wpos' = wpos + 1
              /\ UNCHANGED <<status, alive, io_failed>>
         ELSE /\ Fail("write")
              /\ Panic
              /\ \/ UNCHANGED disk
                 \/ \E part \in Prefixes(Row(data_count_list[wpos + 1])) :
                      Store(FileOf(Append(result.lines, part)))
              /\ UNCHANGED wpos
  /\ UNCHANGED <<args, pc, total_lines, rpos, chan, sender, workerVars,
                 table_lock, data_count, spawned, joined, data_count_list,
                 sent, histVars>>

\* write_sort_and_merge_result returns Ok(()), the table guard is dropped,
\* pb.finish_with_message, main returns and the process exits
\* (main.rs:149,82-85).
Finish ==
  /\ Running /\ pc = "rows"
  /\ wpos = Len(data_count_list)
  /\ table_lock' = 0
  /\ pc' = "finish"
  /\ status' = "done"
  /\ alive' = FALSE
  /\ UNCHANGED <<disk, args, total_lines, rpos, chan, sender, workerVars,
                 data_count, spawned, joined, reportVars, io_failed, sent,
                 histVars>>

(* ------------------------------ workers ------------------------------- *)
\* A worker thread runs for as long as the process is alive, whether or
\* not the main thread has panicked in the meantime.

\* data_receiver.lock().unwrap()  (main.rs:61).  The guard is a temporary
\* of the for-loop's iterator expression: it lives until the loop ends.
WorkerLockRx(w) ==
  /\ alive /\ wpc[w] = "lock_rx"
  /\ rx_lock = 0
  /\ rx_lock' = w
  /\ wpc' = [wpc EXCEPT ![w] = "recv"]
  /\ UNCHANGED <<disk, args, pc, status, alive, total_lines, rpos, chan, sender,
                 wline, recv_log, table_lock, data_count, spawned, joined,
                 reportVars, io_failed, sent, histVars>>

\* Iter::next returns Some(line): recv() took the oldest pending line
\* (main.rs:61).
WorkerRecv(w) ==
  /\ alive /\ wpc[w] = "recv"
  /\ chan /= <<>>
  /\ wline' = [wline EXCEPT ![w] = Head(chan).line]
  /\ recv_log' = Append(recv_log, <<w, Head(chan).id>>)
  /\ chan' = Tail(chan)
  /\ wpc' = [wpc EXCEPT ![w] = "lock_table"]
  /\ UNCHANGED <<disk, args, pc, status, alive, total_lines, rpos, sender, rx_lock,
                 table_lock, data_count, spawned, joined, reportVars,
                 io_failed, sent, histVars>>

\* let mut data_count = data_count.lock().unwrap()  (main.rs:62)
WorkerLockTable(w) ==
  /\ alive /\ wpc[w] = "lock_table"
  /\ table_lock = 0
  /\ table_lock' = w
  /\ wpc' = [wpc EXCEPT ![w] = "insert"]
  /\ UNCHANGED <<disk, args, pc, status, alive, total_lines, rpos, chan, sender,
                 rx_lock, wline, recv_log, data_count, spawned, joined,
                 reportVars, io_failed, sent, histVars>>

\* *data_count.entry(line).or_insert(0) += 1; the guard is dropped at the
\* end of the loop body  (main.rs:63-64).
WorkerInsert(w) ==
  /\ alive /\ wpc[w] = "insert"
  /\ data_count' = Increment(data_count, wline[w])
  /\ table_lock' = 0
  /\ wline' = [wline EXCEPT ![w] = NoLine]
  /\ wpc' = [wpc EXCEPT ![w] = "recv"]
  /\ UNCHANGED <<disk, args, pc, status, alive, total_lines, rpos, chan, sender,
                 rx_lock, recv_log, spawned, joined, reportVars, io_failed,
                 sent, histVars>>

\* A worker that polls with try_recv: it leaves its loop as soon as it
\* finds the channel empty, whether or not the sender is still there.
WorkerExit_OnEmpty(w) ==
  /\ alive /\ wpc[w] = "recv"
  /\ chan = <<>>
  /\ rx_lock' = 0
  /\ wpc' = [wpc EXCEPT ![w] = "exit"]
  /\ UNCHANGED <<disk, args, pc, status, alive, total_lines, rpos, chan, sender,
                 wline, recv_log, table_lock, data_count, spawned, joined,
                 reportVars, io_failed, sent, histVars>>

\* A worker that leaves its loop without releasing the receiver (the guard
\* is leaked, e.g. by mem::forget).
WorkerExit_KeepGuard(w) ==
  /\ alive /\ wpc[w] = "recv"
  /\ chan = <<>>
  /\ ~sender
  /\ wpc' = [wpc EXCEPT ![w] = "exit"]
  /\ UNCHANGED <<disk, args, pc, status, alive, total_lines, rpos, chan, sender,
                 rx_lock, wline, recv_log, table_lock, data_count, spawned,
                 joined, reportVars, io_failed, sent, histVars>>

\* Iter::next returns None: the channel is empty and the sender is gone.
\* The loop ends, the receiver guard is dropped and the thread finishes
\* (main.rs:61,65).
WorkerExit(w) ==
  /\ alive /\ wpc[w] = "recv"
  /\ chan = <<>>
  /\ ~sender
  /\ rx_lock' = 0
  /\ wpc' = [wpc EXCEPT ![w] = "exit"]
  /\ UNCHANGED <<disk, args, pc, status, alive, total_lines, rpos, chan, sender,
                 wline, recv_log, table_lock, data_count, spawned, joined,
                 reportVars, io_failed, sent, histVars>>

(* -------------------------------- exit -------------------------------- *)

\* The main thread unwinds from its panic.  At main.rs:82 it holds the
\* guard of the table, a temporary of the statement at main.rs:77-82: the
\* guard is dropped and the table lock is free again.  (At main.rs:37 and
\* main.rs:69 main holds no lock.)
Unwind ==
  /\ status = "failed"
  /\ alive
  /\ table_lock = MainThread
  /\ table_lock' = 0
  /\ UNCHANGED <<disk, args, pc, status, alive, total_lines, rpos, chan,
                 sender, workerVars, data_count, spawned, joined,
                 reportVars, io_failed, sent, histVars>>

\* The main thread has panicked and unwound: the runtime ends the process
\* with status 101, wherever the worker threads are  (main.rs:37,69,82).
Exit ==
  /\ status = "failed"
  /\ alive
  /\ table_lock /= MainThread
  /\ alive' = FALSE
  /\ UNCHANGED <<disk, args, pc, status, total_lines, rpos, chan, sender,
                 workerVars, table_lock, data_count, spawned, joined,
                 reportVars, io_failed, sent, histVars>>

(* ------------------------------- rerun -------------------------------- *)

\* The process has exited; the tool is started again on the same disk and
\* the same two paths, with any value of the concurrency option
\* (main.rs:33-34).
Rerun ==
  /\ ~alive
  /\ run < MaxRuns
  /\ run' = run + 1
  /\ concurrency' \in 0..MaxConcurrency
  /\ file0' = file
  /\ result0' = result
  /\ pc' = "count_open"
  /\ status' = "running"
  /\ alive' = TRUE
  /\ total_lines' = 0
  /\ rpos' = 0
  /\ chan' = <<>>
  /\ sender' = TRUE
  /\ rx_lock' = 0
  /\ table_lock' = 0
  /\ wpc' = [w \in Workers |-> "unspawned"]
  /\ wline' = [w \in Workers |-> NoLine]
  /\ data_count' = EmptyMap
  /\ spawned' = 0
  /\ joined' = 0
  /\ data_count_list' = <<>>
  /\ wpos' = 0
  /\ io_failed' = {}
  /\ sent' = 0
  /\ recv_log' = <<>>
  /\ prev' = IF status = "done"
              THEN [concurrency |-> concurrency, input |-> file0,
                    result |-> result]
              ELSE prev
  /\ UNCHANGED <<disk, same_path>>

Next ==
  \/ CountLinesOpen
  \/ CountLinesNext
  \/ CountLinesEnd
  \/ Spawn
  \/ ReadFileOpen
  \/ ReadFileNext
  \/ ReadFileUnwrap
  \/ ReadFileEnd
  \/ Join
  \/ Snapshot
  \/ Create
  \/ WriteHeader
  \/ WriteRow
  \/ Finish
  \/ Unwind
  \/ \E w \in Workers : WorkerLockRx(w)
  \/ \E w \in Workers : WorkerRecv(w)
  \/ \E w \in Workers : WorkerLockTable(w)
  \/ \E w \in Workers : WorkerInsert(w)
  \/ \E w \in Workers : WorkerExit(w)
  \/ Exit
  \/ Rerun

Spec == Init /\ [][Next]_vars

(* ------------------------ one run, scheduled fairly ------------------- *)

\* The steps of the main thread and of one worker thread.
MainStep ==
  \/ CountLinesOpen
  \/ CountLinesNext
  \/ CountLinesEnd
  \/ Spawn
  \/ ReadFileOpen
  \/ ReadFileNext
  \/ ReadFileUnwrap
  \/ ReadFileEnd
  \/ Join
  \/ Snapshot
  \/ Create
  \/ WriteHeader
  \/ WriteRow
  \/ Finish
  \/ Unwind

WorkerStep(w) ==
  \/ WorkerLockRx(w)
  \/ WorkerRecv(w)
  \/ WorkerLockTable(w)
  \/ WorkerInsert(w)
  \/ WorkerExit(w)

NextRun == MainStep \/ (\E w \in Workers : WorkerStep(w)) \/ Exit

\* One process run, from process start to process exit.
RunSpec == Init /\ [][NextRun]_vars

\* One process run in which the operating system schedules every thread
\* that can take a step: main and each spawned worker are OS threads, a
\* Mutex that stays free is eventually acquired by a thread waiting for it.
LiveSpec ==
  /\ Init
  /\ [][NextRun]_vars
  /\ WF_vars(MainStep)
  /\ \A w \in Workers : WF_vars(WorkerStep(w))

(* ------------------------- run after run ------------------------------ *)

\* The tool is started again after a run that completed.
RunAgain == status = "done" /\ Rerun

NextAgain == NextRun \/ RunAgain

\* Up to MaxRuns runs over the same disk, each started when the one before
\* it has completed.
AgainSpec == Init /\ [][NextAgain]_vars

(* ------------------------- the report alone --------------------------- *)

\* The report phase on its own, started in the state main is in when the
\* join loop has ended: the input has been sent and every worker has
\* finished.  With workers, all lines have been received and counted by
\* the one worker that got the receiver; without, they are all still in
\* the channel and the table is empty.  The counting pass has counted one
\* item per line and up to MaxSpin failed reads that consumed nothing; it
\* saw a failed read if it counted more items than lines, and may have
\* seen one if it counted any item.  The inputs are all files of up to
\* MaxReportLines lines drawn from three distinct lines.
ReportLines == <<"a", "b", "a,1">>

ReportInputs ==
  {FileOf(ls) :
     ls \in UNION {[1..n -> {ReportLines[i] : i \in DOMAIN ReportLines}] :
                     n \in 0..MaxReportLines}}

\* The table after every line of the input has been counted, one
\* increment per line.
RECURSIVE TableOf(_)
TableOf(lines) ==
  IF lines = <<>> THEN EmptyMap
  ELSE Increment(TableOf(SubSeq(lines, 1, Len(lines) - 1)),
                 lines[Len(lines)])

InitReport ==
  /\ file \in ReportInputs
  /\ same_path \in BOOLEAN
  /\ result \in (IF same_path THEN {file} ELSE PriorResults)
  /\ concurrency \in 0..MaxConcurrency
  /\ pc = "join"
  /\ status = "running"
  /\ alive = TRUE
  /\ rpos = Len(file.lines)
  /\ total_lines \in rpos..(rpos + MaxSpin)
  /\ sender = FALSE
  /\ rx_lock = 0
  /\ table_lock = 0
  /\ wpc = [w \in Workers |-> IF w <= concurrency THEN "exit"
                                                   ELSE "unspawned"]
  /\ wline = [w \in Workers |-> NoLine]
  /\ spawned = concurrency
  /\ joined = concurrency
  /\ data_count_list = <<>>
  /\ wpos = 0
  /\ io_failed \in {{}, {"count_read"}}
  /\ io_failed = {} => total_lines = rpos
  /\ io_failed /= {} => total_lines > 0
  /\ sent = Len(file.lines)
  /\ IF concurrency = 0
       THEN /\ chan = [i \in DOMAIN file.lines |->
                        [id |-> i, line |-> file.lines[i]]]
            /\ data_count = EmptyMap
            /\ recv_log = <<>>
       ELSE /\ chan = <<>>
            /\ data_count = TableOf(file.lines)
            /\ \E r \in 1..concurrency :
                 recv_log = [i \in DOMAIN file.lines |-> <<r, i>>]
  /\ file0 = file
  /\ result0 = result
  /\ prev = NoPrev
  /\ run = 1

\* The steps from the end of the join loop to the exit of the process.
NextReport ==
  \/ Snapshot
  \/ Create
  \/ WriteHeader
  \/ WriteRow
  \/ Finish
  \/ Unwind
  \/ Exit

ReportSpec == InitReport /\ [][NextReport]_vars

(* ===================================================================== *)
(*                         Properties of the run                         *)
(* ===================================================================== *)

\* The lines of the input this run started on, and how often each occurs.
\* (When the output path names the input file, the run overwrites it in
\* its report phase.)
InputLines == {file0.lines[i] : i \in DOMAIN file0.lines}
Occurrences(L) ==
  Cardinality({i \in DOMAIN file0.lines : file0.lines[i] = L})
Expected(L) == [line |-> L, count |-> Occurrences(L)]

\* Reading a report back: the (line, count) pairs a row of a report on
\* this input can stand for.
Pairs ==
  {[line |-> L, count |-> k] : L \in InputLines, k \in DOMAIN file0.lines}
RowsOf(f) == {f.lines[i] : i \in 2..Len(f.lines)}
RowPairs(f) == {p \in Pairs : Row(p) \in RowsOf(f)}
RowCount(text) == (CHOOSE p \in Pairs : Row(p) = text).count

RECURSIVE SumCounts(_, _)
SumCounts(lines, from) ==
  IF from > Len(lines) THEN 0
  ELSE RowCount(lines[from]) + SumCounts(lines, from + 1)

Done == status = "done"
ReportPhase == pc \in {"create", "header", "rows", "finish"}

\* C1: when the run completes, the output is the header followed by exactly
\* one row per distinct input line, carrying that line's number of
\* occurrences, and by no other row.
C1_OneRowPerLine ==
  Done =>
    /\ result.exists
    /\ Len(result.lines) = 1 + Cardinality(InputLines)
    /\ result.lines[1] = Header
    /\ \A L \in InputLines :
         Cardinality({i \in 2..Len(result.lines) :
                        result.lines[i] = Row(Expected(L))}) = 1
    /\ \A i \in 2..Len(result.lines) :
         \E L \in InputLines : result.lines[i] = Row(Expected(L))

\* C1 for the runs with at least one worker.
C1_WithWorkers == (concurrency >= 1) => C1_OneRowPerLine

\* C2: when the run completes without an I/O error, the counts of the rows
\* written add up to the number of lines of the input.
C2_SumOfCounts ==
  (Done /\ io_failed = {}) =>
    SumCounts(result.lines, 2) = Len(file0.lines)

C2_WithWorkers == (concurrency >= 1) => C2_SumOfCounts

\* C3: a run that completes reports the same set of (line, count) pairs as
\* an earlier completed run on the same input, whatever the concurrency
\* values of the two runs.
C3_SamePairs ==
  (Done /\ prev.result.exists /\ prev.input = file0) =>
    RowPairs(result) = RowPairs(prev.result)

C3_WithWorkers ==
  (concurrency >= 1 /\ prev.concurrency >= 1) => C3_SamePairs

\* C4: while main is in the report phase (snapshot taken, output file being
\* created or written), every worker thread has terminated.
C4_ReportAfterWorkers ==
  (ReportPhase \/ table_lock = MainThread) =>
    \A w \in Workers :
      /\ wpc[w] \in {"unspawned", "exit"}
      /\ w <= concurrency => wpc[w] = "exit"

C4_Witness ==
  /\ pc = "rows" /\ Running
  /\ concurrency = MaxConcurrency
  /\ \A w \in Workers : wpc[w] = "exit"
  /\ Len(recv_log) >= 2

\* C5: no sent line is received twice, and when the run reaches the report
\* phase every sent line has been received.
C5_ExactlyOnce ==
  /\ \A i, j \in DOMAIN recv_log :
       i /= j => recv_log[i][2] /= recv_log[j][2]
  /\ \A i \in DOMAIN recv_log : recv_log[i][2] \in 1..sent
  /\ ReportPhase =>
       \A id \in 1..sent : \E i \in DOMAIN recv_log : recv_log[i][2] = id

C5_WithWorkers == (concurrency >= 1) => C5_ExactlyOnce

\* C6: the rows written so far are in non-increasing order of count.
C6_Descending ==
  (pc \in {"rows", "finish"}) =>
    \A k \in 1..(wpos - 1) :
      RowCount(result.lines[k + 1]) >= RowCount(result.lines[k + 2])

\* Three rows, two of them with the same count and the third with a
\* smaller one, the line with the comma among them, from an input in
\* which the occurrences of a line are not adjacent.
C6_Witness ==
  /\ Done
  /\ file0 = FileOf(<<"a,1", "a", "b", "a", "a,1">>)
  /\ Len(result.lines) = 4
  /\ RowCount(result.lines[2]) = RowCount(result.lines[3])
  /\ RowCount(result.lines[3]) > RowCount(result.lines[4])
  /\ "a,1,2" \in RowsOf(result)

\* The input a, b, a, a, b gives a,3 before b,2.
C6_Example ==
  /\ Done
  /\ file0 = FileOf(<<"a", "b", "a", "a", "b">>)
  /\ result = FileOf(<<Header, "a,3", "b,2">>)

\* C7: if the input file does not exist when the run starts, the run never
\* leaves the counting pass: no worker is started, no line is sent, the
\* disk is as it was, and the run does not complete.
C7_MissingInput ==
  ~file0.exists =>
    /\ pc = "count_open"
    /\ ~Done
    /\ \A w \in Workers : wpc[w] = "unspawned"
    /\ spawned = 0 /\ sent = 0 /\ chan = <<>>
    /\ result = result0 /\ file = file0

C7_Witness ==
  /\ ~file0.exists
  /\ status = "failed" /\ io_failed = {"open"}
  /\ ~alive
  /\ concurrency >= 1
  /\ result.exists

\* C8: a read of read_file can fail wherever the producer stands, before
\* the first line, between two lines, after the last one and on an empty
\* input; if it does, main sends nothing more and goes nowhere but into its
\* panic, which it reaches: the run does not complete, no report is begun
\* and the disk is as it was when the run started, however many lines had
\* been sent and however many of them the workers count before the process
\* is gone.
C8_ReadErrorNoReport ==
  /\ []((Running /\ pc = "read_loop") =>
          ENABLED (ReadFileNext /\ "read" \in io_failed'))
  /\ []("read" \in io_failed =>
          /\ pc = "read_err"
          /\ status \in {"running", "failed"}
          /\ ~sender
          /\ result = result0 /\ file = file0)
  /\ [][("read" \in io_failed /\ run' = run) =>
          (sent' = sent /\ pc' = pc /\ UNCHANGED disk)]_vars
  /\ ("read" \in io_failed) ~> (status = "failed")

\* The read after the last line of the longest input failed, and the
\* process has exited; the workers had counted lines, and a line was left
\* in the channel.
C8_Witness ==
  /\ "read" \in io_failed
  /\ status = "failed" /\ ~alive
  /\ sent = Len(file0.lines) /\ sent = MaxLines
  /\ chan /= <<>>
  /\ data_count /= EmptyMap
  /\ result.exists

\* The only read of an empty input failed: nothing was sent.
C8_EmptyInput ==
  /\ "read" \in io_failed
  /\ status = "failed" /\ ~alive
  /\ file0 = FileOf(<<>>)
  /\ sent = 0 /\ chan = <<>> /\ data_count = EmptyMap

\* A read failed between two lines, some sent and some not.
C8_Between ==
  /\ "read" \in io_failed
  /\ status = "failed" /\ ~alive
  /\ 0 < sent /\ sent < Len(file0.lines)

\* C9: a run in which some I/O operation failed never completes.
C9_FailureNeverDone ==
  (io_failed /= {}) => ~Done

\* C10: after a completed run the output file holds exactly the header and
\* the rows of this run, nothing of what it held before; and a completed
\* run of the same command on the same input before it reported the same
\* set of rows.
C10_Overwritten ==
  Done =>
    /\ result =
         FileOf(<<Header>> \o
                [i \in 1..Len(data_count_list) |-> Row(data_count_list[i])])
    /\ {data_count_list[i].line : i \in 1..Len(data_count_list)}
         = DOMAIN data_count
    /\ \A i \in 1..Len(data_count_list) :
         data_count_list[i].count = data_count[data_count_list[i].line]
    /\ (/\ prev.result.exists
        /\ prev.concurrency = concurrency
        /\ prev.input = file0) =>
         RowsOf(result) = RowsOf(prev.result)

\* The second of two completed runs of the same command: it found the
\* report of the first and replaced it by its own, rows in another order.
C10_Witness ==
  /\ Done
  /\ prev.result.exists /\ prev.concurrency = concurrency
  /\ prev.input = file0
  /\ result0 = prev.result
  /\ result /= result0
  /\ Len(result.lines) >= 3

\* The second of two completed runs whose output path names the input
\* file: its input was the report of the first, header included.
OwnReportCounted ==
  /\ Done
  /\ same_path
  /\ prev.result.exists /\ file0 = prev.result
  /\ Row([line |-> Header, count |-> 1]) \in RowsOf(result)

\* A completed run that found a longer report of an unrelated run.
StaleReportReplaced ==
  /\ Done
  /\ result0.exists /\ Len(result0.lines) > Len(result.lines)
  /\ StaleRow \in RowsOf(result0)
  /\ Len(result.lines) >= 2

\* C11: the workers compete for the lines item by item: whenever lines are
\* pending and no worker is inside the receive call, a worker that waits
\* for the receiver can take it and so be the one that receives the next
\* line.
C11_AnyWorkerMayReceive ==
  \A w \in Workers :
    (/\ Running
     /\ chan /= <<>>
     /\ wpc[w] = "lock_rx"
     /\ \A v \in Workers : wpc[v] /= "recv")
      => ENABLED WorkerLockRx(w)

\* What the code does instead: all lines of a run are received, and
\* counted, by one and the same worker.
SingleReceiver ==
  \A i, j \in DOMAIN recv_log : recv_log[i][1] = recv_log[j][1]

\* The count of a line in a table, 0 when the line is not a key.
CountOf(table, l) == IF l \in DOMAIN table THEN table[l] ELSE 0

\* C12: a worker looks up and updates the table while it holds the table
\* lock, no two threads are inside the table at a time, and the update of
\* one line raises the count of exactly that line by exactly 1 and leaves
\* every other entry as it was.
C12_AtomicUpdate ==
  /\ [](\A w \in Workers : wpc[w] = "insert" => table_lock = w)
  /\ [](/\ Cardinality({w \in Workers : wpc[w] = "insert"}) <= 1
        /\ table_lock = MainThread =>
             \A w \in Workers : wpc[w] /= "insert")
  /\ [][\A w \in Workers :
          (wpc[w] = "insert" /\ wpc'[w] /= "insert" /\ run' = run) =>
            /\ DOMAIN data_count' = DOMAIN data_count \cup {wline[w]}
            /\ data_count'[wline[w]] = CountOf(data_count, wline[w]) + 1
            /\ \A l \in DOMAIN data_count :
                 l /= wline[w] => data_count'[l] = data_count[l]]_vars

\* Both lines are in the table and one of them has been incremented from
\* an existing entry, in a run with several workers.
C12_Witness ==
  /\ concurrency >= 2
  /\ Cardinality(DOMAIN data_count) = 2
  /\ \E l \in DOMAIN data_count : data_count[l] >= 2

\* The producer has sent its last line and dropped the sending handle.
ProducerDone == Running /\ pc = "join" /\ ~sender

\* C13: under fair scheduling, once the producer has sent its last line and
\* dropped the sending handle, every worker eventually terminates, every
\* join returns, and the run reaches Done unless creating or writing the
\* output fails.
C13_Terminates ==
  /\ ProducerDone ~> (\A w \in Workers : w <= concurrency => wpc[w] = "exit")
  /\ ProducerDone ~> (joined = concurrency)
  /\ ProducerDone ~> (Done \/ io_failed \cap {"create", "write"} /= {})

C13_Witness ==
  /\ Done
  /\ concurrency = MaxConcurrency
  /\ io_failed = {}
  /\ sent >= 2
  /\ \A w \in Workers : wpc[w] = "exit"

\* C14: a worker leaves its receive loop only in a state in which the
\* sending handle has been dropped and the channel is empty; and a worker
\* that has terminated never finds the channel open or non-empty again.
C14_ExitOnlyWhenDrained ==
  /\ [][\A w \in Workers :
          (wpc[w] /= "exit" /\ wpc'[w] = "exit") =>
            (~sender /\ chan = <<>>)]_vars
  /\ [](\A w \in Workers : wpc[w] = "exit" => (~sender /\ chan = <<>>))

\* A worker has terminated after receiving lines, and another one after
\* receiving none.
C14_Witness ==
  /\ Running
  /\ concurrency >= 2
  /\ \A w \in 1..concurrency : wpc[w] = "exit"
  /\ Len(recv_log) >= 2

\* C15: a read that fails during the counting pass makes count_lines
\* return the error: the run has failed in the counting pass, and the line
\* that could not be read has not been counted.
C15_CountReadFails ==
  ("count_read" \in io_failed) =>
    /\ status = "failed"
    /\ pc = "count_scan"
    /\ total_lines < rpos

\* The producer has a next line to send.
HasNextLine == Running /\ pc = "read_loop" /\ rpos < Len(file.lines)

\* C16: whenever the producer has a next line to send, the step that sends
\* it can be taken, however many lines are pending and wherever the
\* workers are.
C16_SendNeverBlocks ==
  HasNextLine => ENABLED (ReadFileNext /\ sent' = sent + 1)

\* The producer has sent every line of the longest input while the workers
\* it spawned have not received a single one.
C16_Witness ==
  /\ Running /\ pc = "join"
  /\ concurrency >= 1
  /\ sent = MaxLines
  /\ Len(chan) = sent
  /\ recv_log = <<>>

\* The phases of a run, in their order: Idle, Counting, Dispatching,
\* Draining, Reporting, Done.
PhaseRank(p) ==
  CASE p = "count_open" -> 0
    [] p = "count_scan" -> 1
    [] p \in {"spawn", "read_loop", "read_err"} -> 2
    [] p = "join" -> 3
    [] p \in {"create", "header", "rows"} -> 4
    [] p = "finish" -> 5

\* What the main thread owns: its position, what it has read, spawned,
\* joined and sent, its sending handle, its report and the output file.
mainVars ==
  <<pc, status, total_lines, rpos, spawned, joined, sent, sender,
    data_count_list, wpos, result>>

\* C17 as stated: within a run, main stays in its phase or moves to the
\* next one, never skipping a phase or going back; it is Done exactly in
\* the last phase; and once the run has failed no phase action is taken:
\* nothing is sent, no count is incremented, nothing is snapshotted,
\* written or retried.
C17_FailedIsTerminal ==
  /\ [][run' = run =>
          PhaseRank(pc') \in {PhaseRank(pc), PhaseRank(pc) + 1}]_vars
  /\ [](Done <=> pc = "finish")
  /\ [][(status = "failed" /\ run' = run) =>
          UNCHANGED <<mainVars, file, data_count>>]_vars

\* C17 amended: the phases are passed in their order, Done holds exactly in
\* the last one, and once the run has failed main takes no further step
\* and the disk does not change: nothing is sent, snapshotted, written or
\* retried.  (The workers still count lines that were sent before the
\* failure, until the process has exited.)
C17_PhaseOrder ==
  /\ [][run' = run =>
          PhaseRank(pc') \in {PhaseRank(pc), PhaseRank(pc) + 1}]_vars
  /\ [](Done <=> pc = "finish")
  /\ [][(status = "failed" /\ run' = run) =>
          UNCHANGED <<mainVars, file>>]_vars
  /\ [][(~alive /\ run' = run) => UNCHANGED vars]_vars

\* Main has panicked on a failed read after it had sent lines; the process
\* has not exited yet and a worker is about to count one of them.
C17_Witness ==
  /\ status = "failed" /\ alive
  /\ pc = "read_err"
  /\ sent >= 2
  /\ \E w \in Workers : wpc[w] = "insert"

\* The sum of all counts of a table.
RECURSIVE SumTable(_)
SumTable(table) ==
  IF DOMAIN table = {} THEN 0
  ELSE LET l == CHOOSE k \in DOMAIN table : TRUE
       IN  table[l] +
           SumTable([k \in (DOMAIN table) \ {l} |-> table[k]])

\* The lines received by a worker and not yet counted.
InHand == Cardinality({w \in Workers : wline[w] /= NoLine})

\* C18: the counts of the table, the lines pending in the channel and the
\* lines received but not yet counted add up to the number of lines sent;
\* every key of the table is a line that was sent, with a count of at
\* least 1.
C18_Conservation ==
  /\ SumTable(data_count) + Len(chan) + InHand = sent
  /\ \A l \in DOMAIN data_count :
       /\ data_count[l] >= 1
       /\ \E i \in 1..sent : file0.lines[i] = l

\* Lines counted, a line in a worker's hand and a line pending, at once.
C18_Witness ==
  /\ Running
  /\ data_count /= EmptyMap
  /\ InHand = 1
  /\ Len(chan) >= 1

\* count_lines is on an input every read of which fails, and has been
\* followed as far as the model follows it.
SpinCapped == pc = "count_scan" /\ file.dir /\ total_lines = MaxSpin

\* C19: a worker takes the receiver lock first and the table lock second,
\* never the other way round; main takes the table lock only when every
\* worker has been joined; and as long as the run has neither completed
\* nor failed, some thread can take a step (a count_lines that never ends
\* keeps taking steps; the model follows it up to SpinCapped).
C19_DeadlockFree ==
  /\ \A w \in Workers :
       /\ table_lock = w => rx_lock = w
       /\ wpc[w] = "lock_table" => rx_lock = w
       /\ wpc[w] = "lock_rx" => (table_lock /= w /\ rx_lock /= w)
  /\ table_lock = MainThread =>
       /\ joined = concurrency
       /\ \A w \in Workers : w <= concurrency => wpc[w] = "exit"
  /\ (Running /\ ~SpinCapped) => ENABLED NextRun

\* Main waits in join for worker 1 and worker 2 waits for the receiver,
\* which worker 1 holds while it waits for nothing: it can go on.
C19_Witness ==
  /\ Running /\ pc = "join" /\ joined = 0
  /\ concurrency >= 2
  /\ rx_lock = 1 /\ wpc[1] = "lock_table"
  /\ wpc[2] = "lock_rx"
  /\ chan /= <<>>

\* C20: with concurrency = 0 no worker is spawned and nothing is received
\* or counted; every line the producer has to send can be sent and stays
\* in the channel; the join loop is empty, so the snapshot can be taken as
\* soon as read_file has returned; a completed run has sent every line and
\* written the header and nothing else; and under fair scheduling a run on
\* an existing input completes unless an open, a read of the produce pass,
\* the creation of the output or a write fails, or a read of the counting
\* pass has failed and the count has not returned (it need not return:
\* reads that fail without consuming anything can go on for ever).
C20_ZeroConcurrency ==
  /\ [](concurrency = 0 =>
          /\ \A w \in Workers : wpc[w] = "unspawned"
          /\ spawned = 0 /\ joined = 0
          /\ recv_log = <<>> /\ data_count = EmptyMap
          /\ Len(chan) = sent
          /\ HasNextLine => ENABLED (ReadFileNext /\ sent' = sent + 1)
          /\ (Running /\ pc = "join") => ENABLED Snapshot
          /\ Done => /\ sent = Len(file0.lines)
                     /\ result = FileOf(<<Header>>))
  /\ (concurrency = 0 /\ file.exists /\ Running) ~>
       \/ Done
       \/ io_failed \cap {"open", "read", "create", "write"} /= {}
       \/ pc = "count_scan" /\ "count_read" \in io_failed

\* A completed run without workers on the longest input: every line is
\* still in the channel.
C20_Witness ==
  /\ Done
  /\ concurrency = 0
  /\ Len(file0.lines) = MaxLines
  /\ Len(chan) = MaxLines
  /\ result = FileOf(<<Header>>)

====
